---- MODULE Spec2Model ----
(***************************************************************************)
(* The background job engine of roblox-vector-search: the JobManager of    *)
(* lib/jobManager, a SQLite table of jobs behind an EventEmitter.           *)
(*                                                                         *)
(* JavaScript runs every synchronous section to completion, so one action   *)
(* is one synchronous section: a call of a JobManager method, or the part   *)
(* of runJob before / after its single await. What a call emits and whether *)
(* it throws are results of the operator that models it.                    *)
(***************************************************************************)
EXTENDS Integers, Sequences, FiniteSets, TLC

(* ------------------------------ bounds -------------------------------- *)

\* The clock (Date.now(), in milliseconds) is read as a value of 0..MaxTime.
MaxTime == 1
\* At most MaxJobs rows are in the jobs table at once.
MaxJobs == 1
\* At most MaxRuns calls of runJob are made.
MaxRuns == 2

(* ------------------------- values of the program ----------------------- *)

\* SQL NULL in an INTEGER or DATETIME column; JS null for a number or a Date.
NullInt == -1
\* JS undefined for a number or a Date property.
UndefinedInt == -2
\* SQL NULL in a TEXT column.
NullText == "<null>"
\* JS undefined for a string property.
UndefinedText == "<undefined>"

\* datetime('now') has second resolution, Date.now() millisecond resolution.
MsPerSec == 1000

JobStatus == {"pending", "running", "completed", "failed"}

\* The command name passed to createJob.
Commands == {"gatherGames"}

\* JavaScript values a unit of work may resolve with: a type and, for an
\* object, its JSON text; for a string, its characters.
Undefined == [type |-> "undefined", text |-> ""]
JsObject(json) == [type |-> "object", text |-> json]
JsString(chars) == [type |-> "string", text |-> chars]

OkObject == JsObject("{\"ok\":true}")
DoneString == JsString("done")

\* What commandFn may resolve with: nothing (an async function without a
\* return), an object, a plain string.
Values == {Undefined, OkObject, DoneString}

\* What a unit of work may reject with or throw: an Error with a message, or
\* a value that is no Error (throw 'boom').
JsError(msg) == [isError |-> TRUE, message |-> msg]
NonError(text) == [isError |-> FALSE, message |-> text]
NoError == [isError |-> FALSE, message |-> ""]
Rejections == {JsError("boom"), NonError("boom")}

\* The SyntaxError of JSON.parse and the error a listener throws.
SyntaxError == JsError("Unexpected token d in JSON")
ListenerError == JsError("listener failed")

\* How a unit of work settles.
Resolve(v) == [kind |-> "resolve", value |-> v, reason |-> NoError]
Reject(e) == [kind |-> "reject", value |-> Undefined, reason |-> e]
Outcomes == {Resolve(v) : v \in Values} \cup {Reject(e) : e \in Rejections}

\* JobProgress values passed to updateJobProgress (message is optional).
Progress == {[current |-> 3, total |-> 10, message |-> UndefinedText]}

\* Kinds of jobUpdated listener: one that returns, one that throws.
ListenerKinds == {"returns", "throws"}

\* `job_${Date.now()}_${Math.random().toString(36).substr(2, 9)}`: the ids
\* createJob can generate, numbered.
JobIds == 1..MaxJobs
\* An id createJob never generated.
MissingId == 0

(* ------------------------------- state --------------------------------- *)

VARIABLES
    jobs,       \* the rows of table jobs
    tasks,      \* per id, the runJob calls made for it, counted by state
    listeners,  \* the kinds of jobUpdated listener that are subscribed
    now,        \* the clock, as last read
    files       \* games.json and embeddings.json under data/games

vars == <<jobs, tasks, listeners, now, files>>

\* Neither file written yet.
NoFiles ==
    [ games |-> [exists |-> FALSE, of |-> <<>>],
      embeddings |-> [exists |-> FALSE, of |-> <<>>] ]

(* ------------------------------ JSON ----------------------------------- *)

\* JSON.stringify: an object gives its JSON text, a string is quoted.
JSONstringify(v) ==
    IF v.type = "string" THEN "\"" \o v.text \o "\"" ELSE v.text

\* The values JSON.parse can produce in this model.
JsonValues == {OkObject, DoneString, JsString("")}

\* JSON.parse: the value whose JSON text this is; a SyntaxError otherwise.
JSONparse(text) ==
    IF \E v \in JsonValues : JSONstringify(v) = text
    THEN [ok |-> TRUE, value |-> CHOOSE v \in JsonValues : JSONstringify(v) = text]
    ELSE [ok |-> FALSE, value |-> Undefined]

\* Date.prototype.toISOString and new Date(isoString): an ISO-8601 UTC string
\* names its millisecond, so the instant is kept as that millisecond.
ToISOString(date) == date
NewDateFromISO(text) == text

\* datetime('now'): the current UTC second.
SqlDatetimeNow(time) == time \div MsPerSec
\* new Date('YYYY-MM-DD HH:MM:SS'): the first millisecond of that second.
NewDateFromSql(seconds) == seconds * MsPerSec

(* ---------------------------- the job store ---------------------------- *)

HasRow(J, id) == \E r \in J : r.id = id
RowOf(J, id) == CHOOSE r \in J : r.id = id

\* JS truthiness of a TEXT column value.
Truthy(text) == text # NullText /\ text # ""

\* A Job that stands for "no job" where a record is needed.
NoJob ==
    [ id |-> MissingId, command |-> "", status |-> "none",
      progress_current |-> NullInt, progress_total |-> NullInt,
      progress_message |-> NullText, result |-> Undefined, error |-> NullText,
      created_at |-> NullInt, started_at |-> UndefinedInt,
      completed_at |-> UndefinedInt ]

\* mapRowToJob throws when JSON.parse(row.result) does.
MapRowThrows(row) == Truthy(row.result) /\ ~JSONparse(row.result).ok

mapRowToJob(row) ==
    [ id |-> row.id,
      command |-> row.command,
      status |-> row.status,
      progress_current |-> row.progress_current,
      progress_total |-> row.progress_total,
      progress_message |-> row.progress_message,
      result |-> IF Truthy(row.result) THEN JSONparse(row.result).value
                 ELSE Undefined,
      error |-> row.error,
      created_at |-> NewDateFromSql(row.created_at),
      started_at |-> IF row.started_at # NullInt
                     THEN NewDateFromISO(row.started_at) ELSE UndefinedInt,
      completed_at |-> IF row.completed_at # NullInt
                       THEN NewDateFromISO(row.completed_at) ELSE UndefinedInt ]

\* getJob: undefined for a missing row, the mapped Job otherwise; kind
\* "throws" when mapRowToJob throws.
getJob(J, id) ==
    IF ~HasRow(J, id) THEN [kind |-> "undefined", job |-> NoJob]
    ELSE IF MapRowThrows(RowOf(J, id)) THEN [kind |-> "throws", job |-> NoJob]
    ELSE [kind |-> "job", job |-> mapRowToJob(RowOf(J, id))]

\* The row createJob inserts: the four columns of the INSERT, every other
\* column NULL.
NewRow(id, command, time) ==
    [ id |-> id, command |-> command, status |-> "pending",
      progress_current |-> NullInt, progress_total |-> NullInt,
      progress_message |-> NullText, result |-> NullText, error |-> NullText,
      created_at |-> SqlDatetimeNow(time), started_at |-> NullInt,
      completed_at |-> NullInt ]

\* A Partial<Job> with no property set.
NoUpdates ==
    [ status |-> UndefinedText, progress_current |-> UndefinedInt,
      progress_total |-> UndefinedInt, progress_message |-> UndefinedText,
      result |-> Undefined, error |-> UndefinedText,
      started_at |-> UndefinedInt, completed_at |-> UndefinedInt ]

\* The "field = ?" clauses updateJob collects.
Fields(u) ==
    {f \in {"status", "error", "progress_message"} : u[f] # UndefinedText}
    \cup {f \in {"progress_current", "progress_total", "started_at",
                 "completed_at"} : u[f] # UndefinedInt}
    \cup {f \in {"result"} : u[f] # Undefined}

\* (mutant: the UPDATE replaces the row, a column not provided becomes NULL)
ApplyUpdatesReplacing(row, u) ==
    [ id |-> row.id, command |-> row.command, created_at |-> row.created_at,
      status |-> IF u.status # UndefinedText THEN u.status ELSE row.status,
      progress_current |->
          IF u.progress_current # UndefinedInt THEN u.progress_current
          ELSE NullInt,
      progress_total |->
          IF u.progress_total # UndefinedInt THEN u.progress_total ELSE NullInt,
      progress_message |->
          IF u.progress_message # UndefinedText THEN u.progress_message
          ELSE NullText,
      result |-> IF u.result # Undefined THEN u.result.text ELSE NullText,
      error |-> IF u.error # UndefinedText THEN u.error ELSE NullText,
      started_at |-> IF u.started_at # UndefinedInt THEN u.started_at
                     ELSE NullInt,
      completed_at |-> IF u.completed_at # UndefinedInt THEN u.completed_at
                       ELSE NullInt ]

\* The row after the UPDATE: a column changes only if its clause was collected.
ApplyUpdates(row, u) ==
    [ row EXCEPT
        !.status = IF u.status # UndefinedText THEN u.status ELSE @,
        !.progress_current =
            IF u.progress_current # UndefinedInt THEN u.progress_current ELSE @,
        !.progress_total =
            IF u.progress_total # UndefinedInt THEN u.progress_total ELSE @,
        !.progress_message =
            IF u.progress_message # UndefinedText THEN u.progress_message ELSE @,
        !.result =
            IF u.result # Undefined
            THEN (IF u.result.type = "string" THEN u.result.text
                  ELSE JSONstringify(u.result))
            ELSE @,
        !.error = IF u.error # UndefinedText THEN u.error ELSE @,
        !.started_at =
            IF u.started_at # UndefinedInt
            THEN (IF u.started_at # NullInt THEN ToISOString(u.started_at)
                  ELSE NullInt)
            ELSE @,
        !.completed_at =
            IF u.completed_at # UndefinedInt
            THEN (IF u.completed_at # NullInt THEN ToISOString(u.completed_at)
                  ELSE NullInt)
            ELSE @ ]

\* EventEmitter.emit calls the listeners synchronously; the first one that
\* throws ends the emit with its exception.
EmitThrows(L) == "throws" \in L

\* What a synchronous call leaves behind: the table, the payloads emitted,
\* and whether it threw (and what).
Returned(J, E) == [jobs |-> J, emitted |-> E, threw |-> FALSE, error |-> NoError]
Threw(J, E, err) == [jobs |-> J, emitted |-> E, threw |-> TRUE, error |-> err]

\* (mutant: an update for an id without a row inserts the row)
updateJobInserting(J, L, id, u) ==
    LET job == getJob(J, id) IN
    IF job.kind = "throws" THEN Threw(J, <<>>, SyntaxError)
    ELSE IF Fields(u) = {} THEN Returned(J, <<>>)
    ELSE
        LET row == IF HasRow(J, id) THEN RowOf(J, id) ELSE NewRow(id, "", 0)
            J2 == (J \ {row}) \cup {ApplyUpdates(row, u)}
            updatedJob == getJob(J2, id)
        IN  IF updatedJob.kind = "throws" THEN Threw(J2, <<>>, SyntaxError)
            ELSE IF EmitThrows(L) THEN Threw(J2, <<updatedJob.job>>, ListenerError)
            ELSE Returned(J2, <<updatedJob.job>>)

updateJob(J, L, id, u) ==
    LET job == getJob(J, id) IN
    IF job.kind = "throws" THEN Threw(J, <<>>, SyntaxError)
    ELSE IF job.kind = "undefined" THEN Returned(J, <<>>)
    ELSE IF Fields(u) = {} THEN Returned(J, <<>>)
    ELSE
        LET row == RowOf(J, id)
            J2 == (J \ {row}) \cup {ApplyUpdates(row, u)}
            updatedJob == getJob(J2, id)
        IN  IF updatedJob.kind = "throws" THEN Threw(J2, <<>>, SyntaxError)
            ELSE IF EmitThrows(L) THEN Threw(J2, <<updatedJob.job>>, ListenerError)
            ELSE Returned(J2, <<updatedJob.job>>)

\* (mutant: current and total are swapped)
updateJobProgressSwapped(J, L, id, progress) ==
    updateJob(J, L, id,
        [NoUpdates EXCEPT !.progress_current = progress.total,
                          !.progress_total = progress.current,
                          !.progress_message = progress.message])

updateJobProgress(J, L, id, progress) ==
    updateJob(J, L, id,
        [NoUpdates EXCEPT !.progress_current = progress.current,
                          !.progress_total = progress.total,
                          !.progress_message = progress.message])

(* -------------------------------- runJob ------------------------------- *)

\* The three partial updates runJob writes.
\* (mutant: the first update stamps completed_at as well)
RunningUpdatesStamped(time) ==
    [NoUpdates EXCEPT !.status = "running", !.started_at = time,
                      !.completed_at = time]

RunningUpdates(time) ==
    [NoUpdates EXCEPT !.status = "running", !.started_at = time]

\* (mutant: the last update stamps started_at again)
CompletedUpdatesRestamped(time, result) ==
    [NoUpdates EXCEPT !.status = "completed", !.started_at = time,
                      !.completed_at = time, !.result = result]

CompletedUpdates(time, result) ==
    [NoUpdates EXCEPT !.status = "completed", !.completed_at = time,
                      !.result = result]

\* (mutant: String(error) for a value that is no Error)
ErrorDescriptionOfAny(error) == error.message

\* error instanceof Error ? error.message : 'Unknown error'
ErrorDescription(error) ==
    IF error.isError THEN error.message ELSE "Unknown error"

\* (mutant: a failed job is put back in the queue)
FailedUpdatesRequeued(time, error) ==
    [NoUpdates EXCEPT !.status = "pending", !.completed_at = time,
                      !.error = ErrorDescription(error)]

FailedUpdates(time, error) ==
    [NoUpdates EXCEPT !.status = "failed", !.completed_at = time,
                      !.error = ErrorDescription(error)]

\* Where a call of runJob stands:
\*   awaiting   runJob awaits commandFn()
\*   fulfilled  the promise of runJob is fulfilled
\*   rejected   the promise of runJob is rejected
\* and how many times it has invoked commandFn.
Task(pc, calls) == [pc |-> pc, calls |-> calls]

\* (mutant: the guard is left out)
JobMissingIgnored(job) == FALSE

\* Whether runJob returns at "if (!job) return".
JobMissing(job) == job.kind = "undefined"

\* runJob up to its await: the result of the synchronous call and the task.
runJobStart(J, L, id, time) ==
    LET job == getJob(J, id) IN
    IF job.kind = "throws"
    THEN [call |-> Threw(J, <<>>, SyntaxError), task |-> Task("rejected", 0)]
    ELSE IF JobMissing(job)
    THEN [call |-> Returned(J, <<>>), task |-> Task("fulfilled", 0)]
    ELSE
        LET started == updateJob(J, L, id, RunningUpdates(time)) IN
        IF started.threw
        THEN [call |-> started, task |-> Task("rejected", 0)]
        ELSE [call |-> started, task |-> Task("awaiting", 1)]

\* (mutant: the catch block swallows the error and writes nothing)
runJobCatchSilent(J, L, id, time, error, E) ==
    [call |-> Returned(J, E), pc |-> "fulfilled"]

\* The catch block of runJob.
runJobCatch(J, L, id, time, error, E) ==
    LET failed == updateJob(J, L, id, FailedUpdates(time, error)) IN
    [ call |-> [failed EXCEPT !.emitted = E \o @],
      pc |-> IF failed.threw THEN "rejected" ELSE "fulfilled" ]

\* runJob after its await: commandFn has settled with outcome.
runJobSettle(J, L, id, time, outcome) ==
    IF outcome.kind = "resolve"
    THEN
        LET done == updateJob(J, L, id, CompletedUpdates(time, outcome.value)) IN
        IF done.threw
        THEN runJobCatch(done.jobs, L, id, time, done.error, done.emitted)
        ELSE [call |-> done, pc |-> "fulfilled"]
    ELSE runJobCatch(J, L, id, time, outcome.reason, <<>>)

(* ------------------------- the calls of runJob ------------------------- *)

AllIds == JobIds \cup {MissingId}

\* No call of runJob made.
NoTasks == [awaiting |-> 0, fulfilled |-> 0, rejected |-> 0, invoked |-> 0]

\* The calls made for one id, after one more call has run up to its await.
Started(c, task) ==
    [c EXCEPT ![task.pc] = @ + 1, !.invoked = @ + task.calls]

\* The calls made for one id, after one awaiting call has run to its end.
Settled(c, pc) ==
    [c EXCEPT !.awaiting = @ - 1, ![pc] = @ + 1]

\* How many calls of runJob were made for id, and in all.
Runs(id) == tasks[id].awaiting + tasks[id].fulfilled + tasks[id].rejected

RECURSIVE RunsOf(_)
RunsOf(ids) ==
    IF ids = {} THEN 0
    ELSE LET id == CHOOSE x \in ids : TRUE IN Runs(id) + RunsOf(ids \ {id})

TotalRuns == RunsOf(AllIds)

(* ------------------------------- actions ------------------------------- *)

Init ==
    /\ jobs = {}
    /\ tasks = [id \in AllIds |-> NoTasks]
    /\ listeners = {}
    /\ now = 0
    /\ files = NoFiles

\* What a read of the clock can return: the clock never runs backwards.
Clock == now..MaxTime

\* createJob(command) at time t: the INSERT fails on a duplicate primary key,
\* and then createJob throws and the table is as it was.
CreateJob(command, id, t) ==
    /\ Cardinality(jobs) < MaxJobs
    /\ jobs' = IF HasRow(jobs, id) THEN jobs
               ELSE jobs \cup {NewRow(id, command, t)}
    /\ now' = t
    /\ UNCHANGED <<tasks, listeners>>
    /\ UNCHANGED files

\* runJob(id, commandFn) called at time t, for any id: up to its await.
RunJob(id, t) ==
    /\ TotalRuns < MaxRuns
    /\ LET r == runJobStart(jobs, listeners, id, t) IN
        /\ jobs' = r.call.jobs
        /\ tasks' = [tasks EXCEPT ![id] = Started(@, r.task)]
    /\ now' = t
    /\ UNCHANGED listeners
    /\ UNCHANGED files

\* The commandFn of a runJob for id settles at time t, and that runJob runs
\* to its end.
Settle(id, outcome, t) ==
    /\ tasks[id].awaiting > 0
    /\ LET r == runJobSettle(jobs, listeners, id, t, outcome) IN
        /\ jobs' = r.call.jobs
        /\ tasks' = [tasks EXCEPT ![id] = Settled(@, r.pc)]
    /\ now' = t
    /\ UNCHANGED listeners
    /\ UNCHANGED files

\* updateJobProgress(id, progress), from a unit of work or anyone else.
UpdateJobProgress(id, progress) ==
    /\ LET r == updateJobProgress(jobs, listeners, id, progress) IN
        /\ jobs' = r.jobs
    /\ UNCHANGED <<tasks, listeners, now>>
    /\ UNCHANGED files

\* jobManager.on('jobUpdated', listener)
On(kind) ==
    /\ kind \notin listeners
    /\ listeners' = listeners \cup {kind}
    /\ UNCHANGED <<jobs, tasks, now>>
    /\ UNCHANGED files

\* The ids a caller passes: those of the rows, and one that has no row.
Ids == {r.id : r \in jobs} \cup {MissingId}

Next ==
    \/ \E c \in Commands, id \in JobIds, t \in Clock : CreateJob(c, id, t)
    \/ \E id \in Ids, t \in Clock : RunJob(id, t)
    \/ \E id \in AllIds, o \in Outcomes, t \in Clock : Settle(id, o, t)
    \/ \E id \in Ids, p \in Progress : UpdateJobProgress(id, p)
    \/ \E kind \in ListenerKinds : On(kind)

Spec == Init /\ [][Next]_vars

(* ------------------------------- claims -------------------------------- *)

\* What a read shows: whether result and error are populated.
ResultPopulated(job) == job.result # Undefined
ErrorPopulated(job) == job.error # NullText

\* The position of a status on pending -> running -> {completed | failed}.
StatusRank(status) ==
    CASE status = "pending" -> 0
      [] status = "running" -> 1
      [] status = "completed" -> 2
      [] status = "failed" -> 2

\* runJob was called once for id, by a caller that created the job first,
\* and that call awaits its unit of work.
RunningOnce(id) ==
    HasRow(jobs, id) /\ Runs(id) = 1 /\ tasks[id].awaiting = 1

\* The Job a read of id shows after the awaited unit of work has settled with
\* outcome at time t.
ReadAfterSettle(id, outcome, t) ==
    getJob(runJobSettle(jobs, listeners, id, t, outcome).call.jobs, id)

\* C1: every job a read shows has neither result nor error while pending or
\* running, and exactly one of them once completed or failed.
C1_ResultXorError ==
    \A r \in jobs :
        LET read == getJob(jobs, r.id) IN
        read.kind = "job" =>
            /\ read.job.status \in {"pending", "running"} =>
                 ~ResultPopulated(read.job) /\ ~ErrorPopulated(read.job)
            /\ read.job.status \in {"completed", "failed"} =>
                 ResultPopulated(read.job) # ErrorPopulated(read.job)

\* C2 as claimed: the status of a job never moves backwards on
\* pending -> running -> {completed | failed}, whatever is called.
C2_StatusNeverReverts ==
    [][\A r \in jobs : \A r2 \in jobs' :
         r2.id = r.id => StatusRank(r2.status) >= StatusRank(r.status)]_vars

\* C2 as amended: the status of a job for whose id runJob is called at most
\* once never moves backwards on pending -> running -> {completed | failed}.
C2_StatusNeverRevertsRunOnce ==
    [][\A r \in jobs : \A r2 \in jobs' :
         (r2.id = r.id /\ Runs(r.id)' <= 1) =>
             StatusRank(r2.status) >= StatusRank(r.status)]_vars

\* C2's case: a job that runJob, called once, has brought to a terminal state.
C2_Witness ==
    \E r \in jobs : r.status \in {"completed", "failed"} /\ Runs(r.id) = 1
                    /\ tasks[r.id].awaiting = 0

\* C3: when the unit of work of a pending job run once resolves with v, a
\* read then shows completed, result v, no error and started_at <= completed_at
\* (here: with no listener subscribed, so that only the value decides).
C3_ResolveShowsResult ==
    \A id \in JobIds : (RunningOnce(id) /\ listeners = {}) =>
        \A v \in Values, t \in Clock :
            LET read == ReadAfterSettle(id, Resolve(v), t) IN
            /\ read.kind = "job"
            /\ read.job.status = "completed"
            /\ read.job.result = v
            /\ ~ErrorPopulated(read.job)
            /\ read.job.started_at # UndefinedInt
            /\ read.job.started_at <= read.job.completed_at

\* C4 as claimed: when the unit of work of a pending job run once rejects, a
\* read then shows failed, the text the unit of work signalled as error, no
\* result, and completed_at set.
C4_RejectShowsSignalledText ==
    \A id \in JobIds : RunningOnce(id) =>
        \A e \in Rejections, t \in Clock :
            LET read == ReadAfterSettle(id, Reject(e), t) IN
            /\ read.kind = "job"
            /\ read.job.status = "failed"
            /\ read.job.error = e.message
            /\ ~ResultPopulated(read.job)
            /\ read.job.completed_at = t

\* C4 as amended: ... the message of the Error the unit of work rejected with,
\* and 'Unknown error' when it rejected with a value that is no Error.
C4_RejectShowsMessageOrUnknown ==
    \A id \in JobIds : RunningOnce(id) =>
        \A t \in Clock :
            LET isError == ReadAfterSettle(id, Reject(JsError("boom")), t)
                noError == ReadAfterSettle(id, Reject(NonError("boom")), t)
            IN  /\ isError.kind = "job" /\ noError.kind = "job"
                /\ isError.job.status = "failed" /\ noError.job.status = "failed"
                /\ isError.job.error = "boom"
                /\ noError.job.error = "Unknown error"
                /\ ~ResultPopulated(isError.job) /\ ~ResultPopulated(noError.job)
                /\ isError.job.completed_at = t /\ noError.job.completed_at = t

\* C4's case: a job run once whose unit of work rejected with a non-Error.
C4_Witness ==
    \E r \in jobs : r.status = "failed" /\ r.error = "Unknown error"
                    /\ Runs(r.id) = 1 /\ tasks[r.id].fulfilled = 1

\* C5: the promise of runJob never rejects (here: with no listener
\* subscribed, so that only the unit of work can fail).
C5_RunJobNeverRejects ==
    listeners = {} => \A id \in AllIds : tasks[id].rejected = 0

\* C6 as claimed: started_at is unset while pending and, once set, no call
\* changes or clears it.
C6_StartedAtSetOnce ==
    [][/\ \A r \in jobs : r.status = "pending" => r.started_at = NullInt
       /\ \A r2 \in jobs' : r2.status = "pending" => r2.started_at = NullInt
       /\ \A r \in jobs : \A r2 \in jobs' :
            (r2.id = r.id /\ r.started_at # NullInt) =>
                r2.started_at = r.started_at]_vars

\* C6 as amended: started_at is unset while pending and, for a job for whose
\* id runJob is called at most once, no call changes or clears it once set.
C6_StartedAtSetOnceRunOnce ==
    [][/\ \A r \in jobs : r.status = "pending" => r.started_at = NullInt
       /\ \A r2 \in jobs' : r2.status = "pending" => r2.started_at = NullInt
       /\ \A r \in jobs : \A r2 \in jobs' :
            (r2.id = r.id /\ r.started_at # NullInt /\ Runs(r.id)' <= 1) =>
                r2.started_at = r.started_at]_vars

\* C6's case: a job run once that ended later than it started.
C6_Witness ==
    \E r \in jobs : /\ Runs(r.id) = 1
                    /\ r.started_at # NullInt
                    /\ r.completed_at # NullInt
                    /\ r.started_at < r.completed_at

C8_ListenersNeverBlock ==
    \A r \in jobs : (r.status = "pending" /\ Runs(r.id) = 0) =>
        \A t \in Clock :
            LET start == runJobStart(jobs, listeners, r.id, t)
                ok == getJob(runJobSettle(start.call.jobs, listeners, r.id, t,
                                          Resolve(OkObject)).call.jobs, r.id)
                boom == getJob(runJobSettle(start.call.jobs, listeners, r.id, t,
                                            Reject(JsError("boom"))).call.jobs, r.id)
            IN  /\ start.task = Task("awaiting", 1)
                /\ ok.kind = "job" /\ ok.job.status = "completed"
                /\ ok.job.result = OkObject /\ ~ErrorPopulated(ok.job)
                /\ boom.kind = "job" /\ boom.job.status = "failed"
                /\ boom.job.error = "boom" /\ ~ResultPopulated(boom.job)

\* C9: runJob for an id that has no row returns without invoking the unit of
\* work, changes no row, emits nothing and does not throw.
C9_RunJobOfMissingJobIsNoOp ==
    [][\A id \in AllIds :
         (~HasRow(jobs, id) /\ tasks'[id] # tasks[id]) =>
             /\ jobs' = jobs
             /\ tasks'[id] = [tasks[id] EXCEPT !.fulfilled = @ + 1]
             /\ \A t \in Clock :
                  LET start == runJobStart(jobs, listeners, id, t) IN
                  /\ start.call.emitted = <<>>
                  /\ ~start.call.threw
                  /\ start.task = Task("fulfilled", 0)]_vars

\* C9's case: runJob was called for an id without a row while a job existed.
C9_Witness ==
    /\ jobs # {}
    /\ ~HasRow(jobs, MissingId)
    /\ tasks[MissingId].fulfilled = 1
    /\ tasks[MissingId].invoked = 0

\* The progress a unit of work may report: with and without a message.
ProgressReports ==
    Progress \cup {[current |-> 3, total |-> 10, message |-> "3 of 10"]}

\* C10: updateJobProgress for a running job whose unit of work is awaited
\* shows in the next read, and changes none of status, result, error,
\* started_at, completed_at.
C10_ProgressVisibleMidRun ==
    \A r \in jobs : (r.status = "running" /\ tasks[r.id].awaiting > 0) =>
        \A p \in ProgressReports :
            LET before == getJob(jobs, r.id)
                after == getJob(updateJobProgress(jobs, listeners, r.id, p).jobs,
                                r.id)
            IN  /\ before.kind = "job" /\ after.kind = "job"
                /\ after.job.progress_current = p.current
                /\ after.job.progress_total = p.total
                /\ after.job.status = before.job.status
                /\ after.job.result = before.job.result
                /\ after.job.error = before.job.error
                /\ after.job.started_at = before.job.started_at
                /\ after.job.completed_at = before.job.completed_at

\* C10's case: a read of a running job shows the progress its unit of work
\* reported.
C10_Witness ==
    \E r \in jobs :
        /\ r.status = "running" /\ tasks[r.id].awaiting > 0
        /\ getJob(jobs, r.id).kind = "job"
        /\ getJob(jobs, r.id).job.progress_current = 3
        /\ getJob(jobs, r.id).job.progress_total = 10

(* ---------------------- updateJob called directly ---------------------- *)

\* The Partial<Job> values a caller passes to updateJob: none of the fields,
\* one field, several fields, a string result, a null.
Updates ==
    { NoUpdates,
      [NoUpdates EXCEPT !.status = "running"],
      [NoUpdates EXCEPT !.progress_current = 3, !.progress_total = 10],
      [NoUpdates EXCEPT !.result = OkObject],
      [NoUpdates EXCEPT !.result = DoneString],
      [NoUpdates EXCEPT !.error = "boom"],
      [NoUpdates EXCEPT !.started_at = 0, !.progress_message = "started"],
      [NoUpdates EXCEPT !.status = "failed", !.completed_at = NullInt] }

\* updateJob(id, updates), called by anyone.
UpdateJob(id, u) ==
    /\ jobs' = updateJob(jobs, listeners, id, u).jobs
    /\ UNCHANGED <<tasks, listeners, now>>
    /\ UNCHANGED files

\* The store under createJob, updateJob and on.
NextUpdate ==
    \/ \E c \in Commands, id \in JobIds : CreateJob(c, id, now)
    \/ \E id \in Ids, u \in Updates : UpdateJob(id, u)
    \/ \E kind \in ListenerKinds : On(kind)

SpecUpdate == Init /\ [][NextUpdate]_vars

\* The columns updateJob can write.
Columns ==
    {"status", "progress_current", "progress_total", "progress_message",
     "result", "error", "started_at", "completed_at"}

\* C11: updateJob leaves every column that updates does not provide, and
\* every other row, as it was; for an id without a row, or updates without a
\* field, the table is unchanged and nothing is emitted.
C11_UpdateJobIsPartial ==
    \A id \in AllIds, u \in Updates :
        LET call == updateJob(jobs, listeners, id, u) IN
        /\ (~HasRow(jobs, id) \/ Fields(u) = {}) =>
               call.jobs = jobs /\ call.emitted = <<>>
        /\ HasRow(jobs, id) =>
               /\ HasRow(call.jobs, id)
               /\ {r \in call.jobs : r.id # id} = {r \in jobs : r.id # id}
               /\ Cardinality(call.jobs) = Cardinality(jobs)
               /\ \A f \in (Columns \ Fields(u)) \cup {"id", "command", "created_at"} :
                     RowOf(call.jobs, id)[f] = RowOf(jobs, id)[f]

\* C11's case: a row that single-field updates have built up: failed with a
\* result, without error and without completed_at, other columns untouched.
C11_Witness ==
    \E r \in jobs : /\ r.status = "failed" /\ r.result = JSONstringify(OkObject)
                    /\ r.error = NullText /\ r.completed_at = NullInt
                    /\ r.progress_current = 3 /\ r.started_at = NullInt

\* C12: an updateJob that applies a field to an existing job emits exactly
\* one jobUpdated, whose payload is the job as getJob returns it after the
\* write.
C12_UpdateEmitsPostState ==
    \A r \in jobs, u \in Updates :
        (getJob(jobs, r.id).kind = "job" /\ Fields(u) # {}) =>
            LET call == updateJob(jobs, listeners, r.id, u)
                read == getJob(call.jobs, r.id)
            IN  /\ read.kind = "job"
                /\ call.emitted = <<read.job>>

(* ------------------------- lists and statistics ------------------------ *)

\* getAllJobs(limit = 100, offset = 0)
DefaultLimit == 100
DefaultOffset == 0

\* ORDER BY created_at DESC: r1 comes before r2. SQL leaves the order of rows
\* with equal created_at open; here the older rowid comes first.
Before(r1, r2) ==
    \/ r1.created_at > r2.created_at
    \/ r1.created_at = r2.created_at /\ r1.id < r2.id

\* The rows of S in that order.
RECURSIVE OrderByCreatedAtDesc(_)
OrderByCreatedAtDesc(S) ==
    IF S = {} THEN <<>>
    ELSE LET first == CHOOSE r \in S : \A r2 \in S : r2 = r \/ Before(r, r2)
         IN  <<first>> \o OrderByCreatedAtDesc(S \ {first})

Min(a, b) == IF a < b THEN a ELSE b

\* LIMIT ? OFFSET ? on an ordered result.
LimitOffset(rows, limit, offset) ==
    SubSeq(rows, offset + 1, Min(Len(rows), offset + limit))

\* rows.map(row => this.mapRowToJob(row)): throws when one row does.
MapRows(rows) ==
    IF \E i \in 1..Len(rows) : MapRowThrows(rows[i])
    THEN [kind |-> "throws", jobs |-> <<>>]
    ELSE [kind |-> "jobs", jobs |-> [i \in 1..Len(rows) |-> mapRowToJob(rows[i])]]

\* (mutant: the query has no LIMIT)
getAllJobsUnlimited(J, limit, offset) ==
    MapRows(OrderByCreatedAtDesc(J))

getAllJobs(J, limit, offset) ==
    MapRows(LimitOffset(OrderByCreatedAtDesc(J), limit, offset))

\* COUNT(*) ... GROUP BY status, for one status.
CountOf(J, status) == Cardinality({r \in J : r.status = status})

\* getJobStats: the CHECK constraint on status leaves four groups.
getJobStats(J) ==
    [ pending |-> CountOf(J, "pending"),
      running |-> CountOf(J, "running"),
      completed |-> CountOf(J, "completed"),
      failed |-> CountOf(J, "failed"),
      total |-> CountOf(J, "pending") + CountOf(J, "running")
                + CountOf(J, "completed") + CountOf(J, "failed") ]

\* A store of up to MaxPopulation jobs.
MaxPopulation == 101

\* createJob(command), the ids generated numbered in the order of creation.
CreateNextJob(command) ==
    /\ Cardinality(jobs) < MaxPopulation
    /\ jobs' = jobs \cup {NewRow(Cardinality(jobs) + 1, command, now)}
    /\ UNCHANGED <<tasks, listeners, now>>
    /\ UNCHANGED files

\* The updates runJob writes, for a unit of work of each kind.
RunJobUpdates ==
    { RunningUpdates(now),
      CompletedUpdates(now, OkObject),
      CompletedUpdates(now, DoneString),
      FailedUpdates(now, JsError("boom")) }

\* The store as it grows, the first jobs created moving through the statuses.
NextStats ==
    \/ \E c \in Commands : CreateNextJob(c)
    \/ \E id \in Ids \cap JobIds, u \in RunJobUpdates : UpdateJob(id, u)

SpecStats == Init /\ [][NextStats]_vars

\* Every row can be read.
AllReadable == \A r \in jobs : ~MapRowThrows(r)

NoneScheduled == [scheduled |-> 0] @@ NoTasks

\* What the unit of work of a handler does: it returns { message: ... }, or
\* the command it awaits rejects.
HandlerOutcomes == {Resolve(OkObject)} \cup {Reject(e) : e \in Rejections}

\* The response of a create-and-run handler: createJob throws on a duplicate
\* id and the handler's catch answers with a failure.
HandleResponse(J, id) ==
    IF HasRow(J, id)
    THEN [success |-> FALSE, jobId |-> MissingId, status |-> "none"]
    ELSE [success |-> TRUE, jobId |-> id, status |-> "pending"]

\* The commands of the create-and-run handlers.
HandlerCommands == {"gatherGames", "generateEmbeddings"}

InitHandlers ==
    /\ jobs = {}
    /\ tasks = [id \in AllIds |-> NoneScheduled]
    /\ listeners = {}
    /\ now = 0
    /\ files = NoFiles

\* (mutant: the handler calls runJob itself instead of handing it to
\* setImmediate)
HandleRunsAtOnce(command, id, t) ==
    /\ Cardinality(jobs) < MaxJobs
    /\ IF HandleResponse(jobs, id).success
       THEN LET r == runJobStart(jobs \cup {NewRow(id, command, t)},
                                 listeners, id, t) IN
            /\ jobs' = r.call.jobs
            /\ tasks' = [tasks EXCEPT ![id] = Started(@, r.task)]
       ELSE UNCHANGED <<jobs, tasks>>
    /\ now' = t
    /\ UNCHANGED listeners
    /\ UNCHANGED files

\* A create-and-run handler, from createJob to its return: the job is
\* inserted and the callback that will call runJob is handed to setImmediate.
Handle(command, id, t) ==
    /\ Cardinality(jobs) < MaxJobs
    /\ IF HandleResponse(jobs, id).success
       THEN /\ jobs' = jobs \cup {NewRow(id, command, t)}
            /\ tasks' = [tasks EXCEPT ![id].scheduled = @ + 1]
       ELSE UNCHANGED <<jobs, tasks>>
    /\ now' = t
    /\ UNCHANGED listeners
    /\ UNCHANGED files

\* A later turn of the event loop runs the callback: runJob up to its await.
Immediate(id, t) ==
    /\ tasks[id].scheduled > 0
    /\ LET r == runJobStart(jobs, listeners, id, t) IN
        /\ jobs' = r.call.jobs
        /\ tasks' = [tasks EXCEPT
                       ![id] = [Started(@, r.task) EXCEPT !.scheduled = @ - 1]]
    /\ now' = t
    /\ UNCHANGED listeners
    /\ UNCHANGED files

\* The unit of work of a handler settles.
SettleHandler(id, t) == \E o \in HandlerOutcomes : Settle(id, o, t)

NextHandlers ==
    \/ \E c \in HandlerCommands, id \in JobIds, t \in Clock : Handle(c, id, t)
    \/ \E id \in JobIds, t \in Clock : Immediate(id, t)
    \/ \E id \in JobIds, t \in Clock : SettleHandler(id, t)
    \/ \E kind \in ListenerKinds : On(kind)

SpecHandlers == InitHandlers /\ [][NextHandlers]_vars

\* C14: when a handler returns, the job it created is pending and its unit of
\* work not invoked; a job starts running only in the turn of its setImmediate
\* callback; one runJob is scheduled per created id, and made once.
C14_HandlerReturnsBeforeRun ==
    [][/\ \A id \in JobIds :
            tasks'[id].scheduled > tasks[id].scheduled =>
                /\ HandleResponse(jobs, id) =
                       [success |-> TRUE, jobId |-> id, status |-> "pending"]
                /\ getJob(jobs', id).kind = "job"
                /\ getJob(jobs', id).job.status = "pending"
                /\ tasks'[id].invoked = 0
                /\ Runs(id)' = 0
       /\ \A r2 \in jobs' :
            (r2.status # "pending" /\ \A r \in jobs : r.id = r2.id =>
                                          r.status = "pending") =>
                /\ HasRow(jobs, r2.id)
                /\ tasks'[r2.id].scheduled = tasks[r2.id].scheduled - 1
       /\ \A r2 \in jobs' : tasks'[r2.id].scheduled + Runs(r2.id)' = 1]_vars

\* C14's case: a handler has returned and its callback has not run yet.
C14_Witness ==
    \E r \in jobs : /\ r.status = "pending"
                    /\ tasks[r.id].scheduled = 1
                    /\ tasks[r.id].invoked = 0

\* The event loop runs every setImmediate callback (weak fairness of
\* Immediate), and the claim is about units of work that settle: no call of
\* runJob awaits its unit of work for ever.
SpecHandlersFair ==
    /\ SpecHandlers
    /\ \A id \in JobIds :
         /\ WF_vars(\E t \in Clock : Immediate(id, t))
         /\ []<>(tasks[id].awaiting = 0)

\* The job of id is completed or failed.
Terminal(id) ==
    HasRow(jobs, id) /\ RowOf(jobs, id).status \in {"completed", "failed"}

\* runJob for id has ended without invoking the unit of work.
NeverInvoked(id) ==
    /\ tasks[id].scheduled = 0 /\ tasks[id].invoked = 0
    /\ tasks[id].fulfilled + tasks[id].rejected = 1

\* C15: a job created by a handler whose unit of work is invoked and settles
\* ends completed or failed and stays so; until the unit of work settles the
\* job is running.
C15_SettledJobsEndTerminal ==
    /\ \A id \in JobIds :
         (tasks[id].scheduled = 1) ~> (Terminal(id) \/ NeverInvoked(id))
    /\ \A id \in JobIds : (tasks[id].awaiting = 1) ~> Terminal(id)
    /\ [][\A id \in JobIds :
            Terminal(id) => Terminal(id)' /\ tasks'[id].awaiting = 0]_vars
    /\ [](\A id \in JobIds :
            tasks[id].awaiting = 1 =>
                HasRow(jobs, id) /\ RowOf(jobs, id).status = "running")

\* C15's case: the unit of work of a handler's job has settled.
C15_Witness ==
    \E id \in JobIds : /\ Terminal(id)
                       /\ tasks[id].invoked = 1
                       /\ tasks[id].awaiting = 0
                       /\ tasks[id].scheduled = 0

(* ------------------------ runJob called once more ---------------------- *)

\* C16: a further runJob for an id whose job can be read invokes its unit of
\* work as well, and writes status running and started_at again.
C16_SecondRunJobRunsAgain ==
    [][\A id \in JobIds :
         (/\ getJob(jobs, id).kind = "job"
          /\ Runs(id) >= 1
          /\ Runs(id)' = Runs(id) + 1) =>
             /\ tasks'[id].invoked = tasks[id].invoked + 1
             /\ tasks'[id].awaiting = tasks[id].awaiting + 1
             /\ RowOf(jobs', id).status = "running"
             /\ RowOf(jobs', id).started_at = now']_vars

(* ------------------------- two jobs in flight -------------------------- *)

\* The ids of two jobs that are in flight together.
PairIds == {1, 2}

InitPair ==
    /\ jobs = {}
    /\ tasks = [id \in AllIds \cup PairIds |-> NoTasks]
    /\ listeners = {}
    /\ now = 0
    /\ files = NoFiles

\* createJob(command) at time t, generating id.
CreateJobOfPair(command, id, t) ==
    /\ ~HasRow(jobs, id)
    /\ jobs' = jobs \cup {NewRow(id, command, t)}
    /\ now' = t
    /\ UNCHANGED <<tasks, listeners>>
    /\ UNCHANGED files

\* runJob(id, commandFn) called at time t, once per created id: up to its
\* await.
RunJobOnce(id, t) ==
    /\ HasRow(jobs, id)
    /\ Runs(id) = 0
    /\ LET r == runJobStart(jobs, listeners, id, t) IN
        /\ jobs' = r.call.jobs
        /\ tasks' = [tasks EXCEPT ![id] = Started(@, r.task)]
    /\ now' = t
    /\ UNCHANGED listeners
    /\ UNCHANGED files

NextPair ==
    \/ \E c \in Commands, id \in PairIds, t \in Clock : CreateJobOfPair(c, id, t)
    \/ \E id \in PairIds, t \in Clock : RunJobOnce(id, t)
    \/ \E id \in PairIds, o \in Outcomes, t \in Clock : Settle(id, o, t)
    \/ \E id \in PairIds, p \in Progress :
          tasks[id].awaiting > 0 /\ UpdateJobProgress(id, p)
    \/ \E kind \in ListenerKinds : On(kind)

SpecPair == InitPair /\ [][NextPair]_vars

\* The rows of the jobs other than id.
Others(J, id) == {r \in J : r.id # id}

\* C17: with two jobs created and one of them in flight, a progress report
\* and the settling of its unit of work change no row but its own, and leave
\* it completed if the unit of work resolved and failed if it rejected.
C17_JobsIsolated ==
    \A id \in PairIds :
        ((\A other \in PairIds : HasRow(jobs, other)) /\ tasks[id].awaiting = 1) =>
            /\ \A p \in Progress :
                 Others(updateJobProgress(jobs, listeners, id, p).jobs, id)
                     = Others(jobs, id)
            /\ \A o \in Outcomes, t \in Clock :
                 LET after == runJobSettle(jobs, listeners, id, t, o).call.jobs IN
                 /\ Others(after, id) = Others(jobs, id)
                 /\ HasRow(after, id)
                 /\ RowOf(after, id).status =
                        IF o.kind = "resolve" THEN "completed" ELSE "failed"

(* --------------------------- GET /jobs (list) -------------------------- *)

\* getJobsByStatus and getJobsByCommand: no LIMIT, no OFFSET.
getJobsByStatus(J, status) ==
    MapRows(OrderByCreatedAtDesc({r \in J : r.status = status}))
getJobsByCommand(J, command) ==
    MapRows(OrderByCreatedAtDesc({r \in J : r.command = command}))

\* parseInt(text, 10) of the query strings used here; NaN for no number.
NaN == [nan |-> TRUE, value |-> 0]
Number(n) == [nan |-> FALSE, value |-> n]
ParseInt(text) ==
    CASE text = "0" -> Number(0)
      [] text = "1" -> Number(1)
      [] text = "2" -> Number(2)
      [] text = "1001" -> Number(1001)
      [] OTHER -> NaN

\* The largest limit the handler accepts.
MaxLimit == 1000

\* The query of a list request: each parameter a string, or not given.
Queries ==
    [ limit : {UndefinedText, "1", "0", "abc", "1001"},
      offset : {UndefinedText, "1"},
      status : {UndefinedText, "pending", "completed"},
      command : {UndefinedText, "gatherGames"} ]

\* The limit and offset the handler uses.
LimitOf(query) ==
    IF query.limit # UndefinedText
       /\ ~ParseInt(query.limit).nan
       /\ ParseInt(query.limit).value > 0
       /\ ParseInt(query.limit).value <= MaxLimit
    THEN ParseInt(query.limit).value ELSE DefaultLimit
OffsetOf(query) ==
    IF query.offset # UndefinedText
       /\ ~ParseInt(query.offset).nan
       /\ ParseInt(query.offset).value >= 0
    THEN ParseInt(query.offset).value ELSE DefaultOffset

\* The handler of GET /jobs: the jobs it selects and the statistics; a
\* failure when a call throws.
ListJobs(J, query) ==
    LET list ==
            IF query.status # UndefinedText /\ query.status \in JobStatus
            THEN getJobsByStatus(J, query.status)
            ELSE IF query.command # UndefinedText /\ query.command # ""
            THEN getJobsByCommand(J, query.command)
            ELSE getAllJobs(J, LimitOf(query), OffsetOf(query))
    IN  IF list.kind = "throws"
        THEN [success |-> FALSE, jobs |-> <<>>, stats |-> getJobStats({})]
        ELSE [success |-> TRUE, jobs |-> list.jobs, stats |-> getJobStats(J)]

\* A store of two jobs, of either command, in any status runJob gives them.
NextList ==
    \/ \E c \in HandlerCommands, id \in PairIds, t \in Clock :
          CreateJobOfPair(c, id, t)
    \/ \E id \in PairIds, u \in RunJobUpdates : UpdateJob(id, u)

SpecList == InitPair /\ [][NextList]_vars

\* The rows that match every filter a query gives.
Matching(J, query) ==
    {r \in J : /\ query.status # UndefinedText => r.status = query.status
               /\ query.command # UndefinedText => r.command = query.command}

\* How many rows a window of limit rows after offset holds, of n rows.
WindowSize(n, limit, offset) ==
    IF n <= offset THEN 0 ELSE Min(n - offset, limit)

\* C18: a list request that succeeds returns jobs that match every filter
\* given, as many of them as the limit/offset window holds, and the
\* statistics of the whole store.
C18_ListReturnsMatchingJobs ==
    \A query \in Queries :
        LET response == ListJobs(jobs, query) IN
        response.success =>
            /\ \A i \in 1..Len(response.jobs) :
                 \E r \in Matching(jobs, query) : r.id = response.jobs[i].id
            /\ Len(response.jobs) =
                   WindowSize(Cardinality(Matching(jobs, query)),
                              LimitOf(query), OffsetOf(query))
            /\ response.stats = getJobStats(jobs)

(* ------------------------------ retention ------------------------------ *)

\* The ' days' modifier of datetime(): a day in seconds, and in milliseconds.
SecPerDay == 86400
MsPerDay == SecPerDay * MsPerSec

\* The instants (Date.now(), in milliseconds) of this part: on and between
\* whole seconds, today and a day later.
Instants == {0, 500, 1000, 1500, MsPerDay + 1000, MsPerDay + 1500}

\* What a read of the clock can return now.
LaterInstants == {t \in Instants : t >= now}

\* The olderThanDays a caller passes.
Days == {0, 1}

\* datetime('now', '-' || ? || ' days'), in seconds.
SqlDatetimeNowMinusDays(time, days) == SqlDatetimeNow(time) - days * SecPerDay

\* (mutant: the comparison is <=)
deleteOldJobsInclusive(J, days, time) ==
    LET old == {r \in J : r.created_at <= SqlDatetimeNowMinusDays(time, days)}
    IN  [jobs |-> J \ old, changes |-> Cardinality(old)]

\* deleteOldJobs(olderThanDays) at time: the table after the DELETE and
\* result.changes.
deleteOldJobs(J, days, time) ==
    LET old == {r \in J : r.created_at < SqlDatetimeNowMinusDays(time, days)}
    IN  [jobs |-> J \ old, changes |-> Cardinality(old)]

\* Per id: no call of runJob made, the row never deleted.
NoneDeleted == [deleted |-> 0] @@ NoTasks

InitRetention ==
    /\ jobs = {}
    /\ tasks = [id \in AllIds \cup PairIds |-> NoneDeleted]
    /\ listeners = {}
    /\ now = 0
    /\ files = NoFiles

\* createJob(command) at time t: an id is generated once.
CreateJobAt(command, id, t) ==
    /\ tasks[id].deleted = 0
    /\ CreateJobOfPair(command, id, t)

\* deleteOldJobs(days) at time t.
DeleteOldJobs(days, t) ==
    /\ jobs' = deleteOldJobs(jobs, days, t).jobs
    /\ tasks' = [id \in DOMAIN tasks |->
                   IF HasRow(jobs, id) /\ ~HasRow(jobs', id)
                   THEN [tasks[id] EXCEPT !.deleted = @ + 1] ELSE tasks[id]]
    /\ now' = t
    /\ UNCHANGED listeners
    /\ UNCHANGED files

NextRetention ==
    \/ \E c \in Commands, id \in PairIds, t \in LaterInstants :
          CreateJobAt(c, id, t)
    \/ \E id \in PairIds, u \in RunJobUpdates : UpdateJob(id, u)
    \/ \E days \in Days, t \in LaterInstants : DeleteOldJobs(days, t)

SpecRetention == InitRetention /\ [][NextRetention]_vars

\* C19 as claimed: deleteOldJobs(days) at time t removes exactly the jobs
\* whose created_at is before t minus days, and returns how many.
C19_DeletesStrictlyOlder ==
    \A days \in Days, t \in LaterInstants :
        LET call == deleteOldJobs(jobs, days, t)
            older == {r \in jobs :
                        NewDateFromSql(r.created_at) < t - days * MsPerDay}
        IN  /\ call.jobs = jobs \ older
            /\ call.changes = Cardinality(older)

\* C19 as amended: ... whose created_at is before the whole second of t
\* minus days (both are kept to the second).
C19_DeletesStrictlyOlderToTheSecond ==
    \A days \in Days, t \in LaterInstants :
        LET call == deleteOldJobs(jobs, days, t)
            older == {r \in jobs :
                        NewDateFromSql(r.created_at)
                            < (t - (t % MsPerSec)) - days * MsPerDay}
        IN  /\ call.jobs = jobs \ older
            /\ call.changes = Cardinality(older)
            /\ call.jobs \subseteq jobs

\* C19's case: deleteOldJobs has removed one job, running or completed, and
\* kept the other, which was created a day before the second of the call.
C19_Witness ==
    \E gone \in PairIds, kept \in jobs :
        /\ tasks[gone].deleted = 1
        /\ ~HasRow(jobs, gone)
        /\ kept.status # "pending"
        /\ kept.created_at = SqlDatetimeNowMinusDays(now, 1)

(* ------------------------------ GET /jobs/:id -------------------------- *)

\* The progress of a response: given when current and total are both set.
ProgressOf(job) ==
    IF job.progress_current # NullInt /\ job.progress_current # UndefinedInt
       /\ job.progress_total # NullInt /\ job.progress_total # UndefinedInt
    THEN [ current |-> job.progress_current, total |-> job.progress_total,
           message |-> IF Truthy(job.progress_message)
                       THEN job.progress_message ELSE UndefinedText ]
    ELSE [current |-> UndefinedInt, total |-> UndefinedInt,
          message |-> UndefinedText]

\* The data of a successful response.
JobData(job) ==
    [ id |-> job.id, command |-> job.command, status |-> job.status,
      progress |-> ProgressOf(job), result |-> job.result, error |-> job.error,
      created_at |-> ToISOString(job.created_at),
      started_at |-> IF job.started_at # UndefinedInt
                     THEN ToISOString(job.started_at) ELSE UndefinedInt,
      completed_at |-> IF job.completed_at # UndefinedInt
                       THEN ToISOString(job.completed_at) ELSE UndefinedInt ]

\* The failures of the handler: their message, and for `Job not found: ${jobId}`
\* the id in it.
Failure(message, id) ==
    [success |-> FALSE, message |-> message, id |-> id, data |-> JobData(NoJob)]

\* (mutant: an id without a row is answered like a job that has not started)
GetJobResponseAsPending(J, id) ==
    LET job == getJob(J, id) IN
    IF job.kind = "throws" THEN Failure(SyntaxError.message, MissingId)
    ELSE [ success |-> TRUE, message |-> "", id |-> MissingId,
           data |-> JobData(IF job.kind = "job" THEN job.job
                            ELSE [NoJob EXCEPT !.id = id, !.status = "pending"]) ]

\* The handler of GET /jobs/:id; UndefinedInt for a request without id.
GetJobResponse(J, id) ==
    IF id = UndefinedInt THEN Failure("Job ID is required", MissingId)
    ELSE LET job == getJob(J, id) IN
         IF job.kind = "throws" THEN Failure(SyntaxError.message, MissingId)
         ELSE IF job.kind = "undefined" THEN Failure("Job not found", id)
         ELSE [ success |-> TRUE, message |-> "", id |-> MissingId,
                data |-> JobData(job.job) ]

\* C20: for an id that was never created, or whose job was deleted, getJob
\* returns undefined and does not throw, and the response of GET /jobs/:id is
\* the not-found failure, unlike the response for any job there is, pending
\* ones included.
C20_MissingJobIsNotFound ==
    \A id \in PairIds \cup {MissingId} :
        ~HasRow(jobs, id) =>
            /\ getJob(jobs, id).kind = "undefined"
            /\ GetJobResponse(jobs, id) = Failure("Job not found", id)
            /\ \A r \in jobs :
                 /\ GetJobResponse(jobs, r.id) # GetJobResponse(jobs, id)
                 /\ r.status = "pending" =>
                      /\ GetJobResponse(jobs, r.id).success
                      /\ GetJobResponse(jobs, r.id).data.status = "pending"

\* C20's case: one job was deleted while another is still pending.
C20_Witness ==
    \E gone \in PairIds, r \in jobs :
        /\ tasks[gone].deleted = 1
        /\ ~HasRow(jobs, gone)
        /\ r.status = "pending"

(* ------------------------- createJob and its ids ----------------------- *)

\* Up to MaxCreates calls of createJob.
MaxCreates == 3

\* The instants (Date.now(), in milliseconds) createJob is called at: twice
\* in a millisecond, twice in a second, and a second apart.
CreateInstants == {0, 500, 1000}

\* What a read of the clock can return now.
LaterCreateInstants == {t \in CreateInstants : t >= now}

\* Math.random().toString(36).substr(2, 9): the suffixes, numbered.
Suffixes == {0, 1}

\* `job_${Date.now()}_${suffix}`: one id per pair of instant and suffix.
GeneratedId(time, random) == time * Cardinality(Suffixes) + random + 1

GeneratedIds == {GeneratedId(t, s) : t \in CreateInstants, s \in Suffixes}

\* createJob(command) at time, Math.random() giving random: the INSERT fails
\* on a duplicate primary key, and then createJob throws and the table is as
\* it was; otherwise the id is returned.
createJob(J, command, time, random) ==
    LET id == GeneratedId(time, random) IN
    IF HasRow(J, id) THEN [jobs |-> J, threw |-> TRUE, id |-> MissingId]
    ELSE [jobs |-> J \cup {NewRow(id, command, time)}, threw |-> FALSE,
          id |-> id]

\* deleteJob(id): the table after the DELETE and result.changes > 0.
deleteJob(J, id) ==
    [jobs |-> {r \in J : r.id # id}, deleted |-> HasRow(J, id)]

\* Per id: how many calls of createJob returned it, how many threw on it,
\* which call (first, second, ...) returned it last, and how many times its
\* row was deleted.
NeverCreated == [created |-> 0, collided |-> 0, order |-> 0] @@ NoneDeleted

RECURSIVE CreateCallsOf(_)
CreateCallsOf(ids) ==
    IF ids = {} THEN 0
    ELSE LET id == CHOOSE x \in ids : TRUE
         IN  tasks[id].created + tasks[id].collided
                + CreateCallsOf(ids \ {id})

\* The calls of createJob made so far.
CreateCalls == CreateCallsOf(GeneratedIds)

InitCreate ==
    /\ jobs = {}
    /\ tasks = [id \in GeneratedIds \cup {MissingId} |-> NeverCreated]
    /\ listeners = {}
    /\ now = 0
    /\ files = NoFiles

\* A call of createJob(command) at time t, Math.random() giving random.
CreateJobCall(command, t, random) ==
    /\ CreateCalls < MaxCreates
    /\ LET call == createJob(jobs, command, t, random)
           id == GeneratedId(t, random)
       IN  /\ jobs' = call.jobs
           /\ tasks' = [tasks EXCEPT ![id] =
                          IF call.threw THEN [@ EXCEPT !.collided = @ + 1]
                          ELSE [@ EXCEPT !.created = @ + 1,
                                         !.order = CreateCalls + 1]]
    /\ now' = t
    /\ UNCHANGED listeners
    /\ UNCHANGED files

\* A call of deleteJob(id).
DeleteJob(id) ==
    /\ jobs' = deleteJob(jobs, id).jobs
    /\ tasks' = [tasks EXCEPT ![id].deleted =
                   IF deleteJob(jobs, id).deleted THEN @ + 1 ELSE @]
    /\ UNCHANGED <<listeners, now>>
    /\ UNCHANGED files

NextCreate ==
    \/ \E c \in HandlerCommands, t \in LaterCreateInstants, s \in Suffixes :
          CreateJobCall(c, t, s)
    \/ \E id \in Ids : UpdateJob(id, RunningUpdates(now))
    \/ \E id \in Ids : DeleteJob(id)

SpecCreate == InitCreate /\ [][NextCreate]_vars

\* C21: createJob(command), whenever it is called, inserts one new row and
\* returns its id; the job of that row has the command, status pending,
\* created_at the time of the call, every other field unset; the rows there
\* were are as they were.
C21_CreateJobInsertsOnePending ==
    \A c \in HandlerCommands, t \in LaterCreateInstants, s \in Suffixes :
        LET call == createJob(jobs, c, t, s)
            read == getJob(call.jobs, call.id)
        IN  /\ ~call.threw
            /\ ~HasRow(jobs, call.id)
            /\ jobs \subseteq call.jobs
            /\ Cardinality(call.jobs) = Cardinality(jobs) + 1
            /\ read.kind = "job"
            /\ read.job.command = c
            /\ read.job.status = "pending"
            /\ read.job.created_at <= t
            /\ t < read.job.created_at + MsPerSec
            /\ read.job.progress_current = NullInt
            /\ read.job.progress_total = NullInt
            /\ read.job.progress_message = NullText
            /\ read.job.result = Undefined
            /\ read.job.error = NullText
            /\ read.job.started_at = UndefinedInt
            /\ read.job.completed_at = UndefinedInt

\* C22: no id is returned by two calls of createJob, and no call of createJob
\* fails on an id that is in the table.
C22_IdsNeverCollide ==
    /\ \A id \in GeneratedIds :
          tasks[id].created <= 1 /\ tasks[id].collided = 0
    /\ \A c \in HandlerCommands, t \in LaterCreateInstants, s \in Suffixes :
          ~createJob(jobs, c, t, s).threw

(* --------------------------- the order of lists ------------------------ *)

\* ORDER BY created_at DESC: every order of the rows of S the query may
\* return, the order of rows with equal created_at being open.
OrdersByCreatedAtDesc(S) ==
    { rows \in [1..Cardinality(S) -> S] :
        /\ \A i, j \in 1..Cardinality(S) : i # j => rows[i] # rows[j]
        /\ \A i, j \in 1..Cardinality(S) :
              i < j => rows[i].created_at >= rows[j].created_at }

\* The limit and offset a caller passes.
Windows == {0, 1, 2, DefaultLimit}

\* C23: in whatever getAllJobs, getJobsByStatus and getJobsByCommand return, a
\* job created later never comes after a job created earlier; getAllJobs
\* returns the jobs of that order after the first offset ones, limit of them
\* at most.
C23_ListsMostRecentFirst ==
    /\ OrderByCreatedAtDesc(jobs) \in OrdersByCreatedAtDesc(jobs)
    /\ \A S \in {jobs} \cup {{r \in jobs : r.status = status} : status \in JobStatus}
                \cup {{r \in jobs : r.command = c} : c \in HandlerCommands} :
          \A rows \in OrdersByCreatedAtDesc(S) :
             \A i, j \in 1..Len(rows) :
                i < j => tasks[rows[i].id].order > tasks[rows[j].id].order
    /\ \A rows \in OrdersByCreatedAtDesc(jobs), limit \in Windows,
          offset \in Windows :
          LET list == LimitOffset(rows, limit, offset) IN
             /\ Len(list) = WindowSize(Len(rows), limit, offset)
             /\ Len(list) <= limit
             /\ \A k \in 1..Len(list) : list[k] = rows[offset + k]

(* --------------------------- similarity ranking ------------------------ *)

\* Up to MaxGames games in games.json, numbered as they are gathered.
MaxGames == 3

\* The embeddings the model returns: of two dimensions, with a zero vector,
\* and of one and of three dimensions (another model). Their norms are whole
\* numbers, so that every score below is the exact value of the float.
Vectors == {<<1, 0>>, <<0, 1>>, <<-1, 0>>, <<3, 4>>, <<0, 0>>, <<1>>, <<3, 4, 0>>}

\* The embeddings of a query text.
QueryEmbeddings == {<<1, 0>>, <<3, 4>>}

\* The playerCount of a game in games.json: not given, or a count.
PlayerCounts == {UndefinedInt, 1000}

\* Scores are counted in units of 1/ScoreUnit, weights in units of
\* 1/WeightUnit.
ScoreUnit == 25
WeightUnit == 500

\* Math.sqrt of a square.
Sqrt(n) == CHOOSE r \in 0..n : r * r = n

\* a.reduce((sum, val, i) => sum + val * b[i], 0), over the first n elements.
RECURSIVE SumOfProducts(_, _, _)
SumOfProducts(a, b, n) ==
    IF n = 0 THEN 0 ELSE SumOfProducts(a, b, n - 1) + a[n] * b[n]

\* cosineSimilarity(a, b): b[i] is undefined past the end of b and the sum is
\* NaN then; 0 / 0 is NaN.
cosineSimilarity(a, b) ==
    IF Len(a) > Len(b) THEN NaN
    ELSE LET dotProduct == SumOfProducts(a, b, Len(a))
             normA == Sqrt(SumOfProducts(a, a, Len(a)))
             normB == Sqrt(SumOfProducts(b, b, Len(b)))
         IN  IF normA * normB = 0 THEN NaN
             ELSE Number((dotProduct * ScoreUnit) \div (normA * normB))

\* (mutant: the factor is not capped)
popularityAdjustmentFactorUncapped(playerCount) ==
    (IF playerCount = UndefinedInt THEN 0 ELSE playerCount) + 400

\* Math.min(0.2, (playerCount || 0) / 500) + 0.8
popularityAdjustmentFactor(playerCount) ==
    Min(100, IF playerCount = UndefinedInt THEN 0 ELSE playerCount) + 400

\* similarity * factor
Times(similarity, factor) ==
    IF similarity.nan THEN NaN ELSE Number(similarity.value * factor)

\* Object.entries of an object with integer keys: the keys in ascending order.
RECURSIVE Ascending(_)
Ascending(S) ==
    IF S = {} THEN <<>>
    ELSE LET least == CHOOSE x \in S : \A y \in S : x <= y
         IN  <<least>> \o Ascending(S \ {least})

\* (mutant: the target game is not skipped)
similarGamesWithTarget(embeddings, universeId) ==
    LET ids == Ascending(DOMAIN embeddings) IN
    [ i \in 1..Len(ids) |->
        [ universeId |-> ids[i],
          similarity |-> cosineSimilarity(embeddings[universeId],
                                          embeddings[ids[i]]) ] ]

\* The loop of GET /vector-search/:universeId and of findSimilarGames.
similarGames(embeddings, universeId) ==
    LET ids == Ascending(DOMAIN embeddings \ {universeId}) IN
    [ i \in 1..Len(ids) |->
        [ universeId |-> ids[i],
          similarity |-> cosineSimilarity(embeddings[universeId],
                                          embeddings[ids[i]]) ] ]

\* The loop of GET /vector-search.
weightedSimilarGames(embeddings, games, queryEmbedding) ==
    LET ids == Ascending(DOMAIN embeddings) IN
    [ i \in 1..Len(ids) |->
        [ universeId |-> ids[i],
          similarity |->
              Times(cosineSimilarity(queryEmbedding, embeddings[ids[i]]),
                    popularityAdjustmentFactor(games[ids[i]])) ] ]

\* (a, b) => b.similarity - a.similarity; sort takes a NaN for 0.
Compare(a, b) ==
    IF a.similarity.nan \/ b.similarity.nan THEN 0
    ELSE b.similarity.value - a.similarity.value

\* Array.prototype.sort with that comparator: stable where the comparator is
\* consistent; where it is not (a NaN between two different scores) the
\* order is implementation-defined.
SortOutcomes(list) ==
    LET n == Len(list)
        consistent ==
            \A i, j, k \in 1..n :
                Compare(list[i], list[j]) = 0 /\ Compare(list[j], list[k]) = 0
                    => Compare(list[i], list[k]) = 0
        orders ==
            { f \in [1..n -> 1..n] :
                /\ \A i, j \in 1..n : i # j => f[i] # f[j]
                /\ consistent =>
                     \A i, j \in 1..n :
                        i < j => \/ Compare(list[f[i]], list[f[j]]) < 0
                                 \/ /\ Compare(list[f[i]], list[f[j]]) = 0
                                    /\ f[i] < f[j] }
    IN  { [i \in 1..n |-> list[f[i]]] : f \in orders }

\* let limit = 10, and the largest limit the handlers accept.
DefaultSearchLimit == 10
MaxSearchLimit == 100

\* The limit of a request, as the handlers take it from the query string.
SearchLimit(text) ==
    IF text # UndefinedText
       /\ ~ParseInt(text).nan
       /\ ParseInt(text).value > 0
       /\ ParseInt(text).value <= MaxSearchLimit
    THEN ParseInt(text).value ELSE DefaultSearchLimit

\* The limit parameters of the requests.
LimitTexts == {UndefinedText, "1", "2", "1001"}

\* The responses of the handlers.
Rejected(message) == [success |-> FALSE, message |-> message, data |-> <<>>]
Ranked(sorted, limit) ==
    [ success |-> TRUE, message |-> "",
      data |-> SubSeq(sorted, 1, Min(limit, Len(sorted))) ]

\* GET /vector-search/:universeId: every response the request can get.
SimilarGamesResponses(F, universeId, limitText) ==
    IF ~F.embeddings.exists THEN {Rejected("Embeddings not found")}
    ELSE IF universeId \notin DOMAIN F.embeddings.of
    THEN {Rejected("No embeddings found for game")}
    ELSE IF ~F.games.exists THEN {Rejected("Games data not found")}
    ELSE { Ranked(sorted, SearchLimit(limitText)) :
             sorted \in SortOutcomes(similarGames(F.embeddings.of, universeId)) }

\* GET /vector-search?q=...: every response the request can get, the query
\* text having the embedding queryEmbedding.
VectorSearchResponses(F, queryEmbedding, limitText) ==
    IF ~F.embeddings.exists THEN {Rejected("Embeddings not found")}
    ELSE IF ~F.games.exists THEN {Rejected("Games data not found")}
    ELSE { Ranked(sorted, SearchLimit(limitText)) :
             sorted \in SortOutcomes(
                 weightedSimilarGames(F.embeddings.of, F.games.of,
                                      queryEmbedding)) }

\* gatherGames finds one more game and writes games.json.
GatherGames(playerCount) ==
    /\ Cardinality(DOMAIN files.games.of) < MaxGames
    /\ files' = [files EXCEPT !.games =
                   [ exists |-> TRUE,
                     of |-> @.of @@
                        (Cardinality(DOMAIN @.of) + 1 :> playerCount) ]]
    /\ UNCHANGED <<jobs, tasks, listeners, now>>

\* generateEmbeddings embeds one game that has no embedding and writes
\* embeddings.json; an empty embedding is not kept.
GenerateEmbeddings(id, embedding) ==
    /\ files.games.exists
    /\ id \in DOMAIN files.games.of
    /\ id \notin DOMAIN files.embeddings.of
    /\ files' = [files EXCEPT !.embeddings =
                   [ exists |-> TRUE,
                     of |-> IF Len(embedding) > 0
                            THEN @.of @@ (id :> embedding) ELSE @.of ]]
    /\ UNCHANGED <<jobs, tasks, listeners, now>>

NextRank ==
    \/ \E playerCount \in PlayerCounts : GatherGames(playerCount)
    \/ \E id \in 1..MaxGames, embedding \in Vectors \cup {<<>>} :
          GenerateEmbeddings(id, embedding)

SpecRank == Init /\ [][NextRank]_vars

\* C24: the ranked list of either request is in non-increasing order of score
\* and repeats no id, and a request with a result bound of at least the size
\* of the corpus gets every id of the corpus (the target game aside).
C24_RankingOrderedAndComplete ==
    LET Ordered(data) ==
            \A i, j \in 1..Len(data) :
                i < j => ~( /\ ~data[i].similarity.nan
                            /\ ~data[j].similarity.nan
                            /\ data[i].similarity.value
                                  < data[j].similarity.value )
        NoRepeat(data) ==
            \A i, j \in 1..Len(data) :
                i # j => data[i].universeId # data[j].universeId
        IdsOf(data) == {data[i].universeId : i \in 1..Len(data)}
        Bound(text) ==
            IF text # UndefinedText /\ ~ParseInt(text).nan
            THEN ParseInt(text).value ELSE DefaultSearchLimit
        corpus == DOMAIN files.embeddings.of
    IN  /\ \A universeId \in corpus, text \in LimitTexts :
              \A r \in SimilarGamesResponses(files, universeId, text) :
                 /\ r.success
                 /\ Ordered(r.data)
                 /\ NoRepeat(r.data)
                 /\ IdsOf(r.data) \subseteq corpus \ {universeId}
                 /\ Bound(text) >= Cardinality(corpus \ {universeId})
                       => IdsOf(r.data) = corpus \ {universeId}
        /\ \A q \in QueryEmbeddings, text \in LimitTexts :
              \A r \in VectorSearchResponses(files, q, text) :
                 r.success =>
                    /\ Ordered(r.data)
                    /\ NoRepeat(r.data)
                    /\ IdsOf(r.data) \subseteq corpus
                    /\ Bound(text) >= Cardinality(corpus)
                          => IdsOf(r.data) = corpus

\* C25: for every game X that has an embedding and every limit, no response
\* to "games similar to X" lists X (findSimilarGames runs the same loop).
C25_TargetNeverReturned ==
    \A universeId \in DOMAIN files.embeddings.of, text \in LimitTexts :
        \A r \in SimilarGamesResponses(files, universeId, text) :
            /\ r.success
            /\ \A i \in 1..Len(r.data) : r.data[i].universeId # universeId

\* C25's case: a game with two other games in the corpus, one of them with
\* the very embedding of the game, is asked for.
C25_Witness ==
    \E universeId \in DOMAIN files.embeddings.of :
        \E r \in SimilarGamesResponses(files, universeId, "2") :
            /\ Len(r.data) = 2
            /\ r.data[1].similarity = Number(ScoreUnit)
            /\ files.embeddings.of[r.data[1].universeId]
                  = files.embeddings.of[universeId]

\* C26: in the weighted ranking, of two games with the same raw cosine
\* similarity to the query, of any sign, the one with the higher weight never
\* has the lower score, and never comes after the other with a different
\* score.
C26_HigherWeightRanksAtLeastAsHigh ==
    \A q \in QueryEmbeddings :
        \A sorted \in SortOutcomes(
                weightedSimilarGames(files.embeddings.of, files.games.of, q)) :
            \A i, j \in 1..Len(sorted) :
                LET raw(k) == cosineSimilarity(
                                  q, files.embeddings.of[sorted[k].universeId])
                    weight(k) == popularityAdjustmentFactor(
                                     files.games.of[sorted[k].universeId])
                IN  /\ ~raw(i).nan
                    /\ ~raw(j).nan
                    /\ raw(i).value = raw(j).value
                    /\ weight(i) > weight(j)
                    => /\ sorted[i].similarity.value
                             >= sorted[j].similarity.value
                       /\ i < j \/ sorted[i].similarity = sorted[j].similarity

\* C27: a request over a corpus that holds a vector of another dimension
\* than the query vector, or over an empty corpus, is answered with a
\* failure.
C27_MalformedInputRejected ==
    LET corpus == files.embeddings.of
        Malformed(q) ==
            \/ DOMAIN corpus = {}
            \/ \E id \in DOMAIN corpus : Len(corpus[id]) # Len(q)
    IN  files.embeddings.exists =>
          /\ \A q \in QueryEmbeddings, text \in LimitTexts :
                Malformed(q) =>
                   \A r \in VectorSearchResponses(files, q, text) : ~r.success
          /\ \A universeId \in DOMAIN corpus, text \in LimitTexts :
                Malformed(corpus[universeId]) =>
                   \A r \in SimilarGamesResponses(files, universeId, text) :
                      ~r.success

\* Up to MaxPlayerCount players in a game.
MaxPlayerCount == 600

\* C30: the factor of every playerCount is between 0.8 and 1.0, 0.8 for no
\* playerCount and 1.0 from 100 players on; so the weighted score of every
\* game is no larger in absolute value than its raw cosine similarity, and of
\* the same sign.
C30_WeightWithinBounds ==
    LET Abs(n) == IF n < 0 THEN -n ELSE n
        Sign(n) == IF n < 0 THEN -1 ELSE IF n > 0 THEN 1 ELSE 0
    IN  /\ \A playerCount \in 0..MaxPlayerCount \cup PlayerCounts :
              LET factor == popularityAdjustmentFactor(playerCount) IN
                 /\ 5 * factor >= 4 * WeightUnit
                 /\ factor <= WeightUnit
                 /\ playerCount \in {UndefinedInt, 0} => 5 * factor = 4 * WeightUnit
                 /\ playerCount >= 100 => factor = WeightUnit
        /\ \A q \in QueryEmbeddings :
              LET list == weightedSimilarGames(files.embeddings.of,
                                               files.games.of, q)
              IN  \A i \in 1..Len(list) :
                     LET raw == cosineSimilarity(
                                    q, files.embeddings.of[list[i].universeId])
                         weighted == list[i].similarity
                     IN  /\ weighted.nan = raw.nan
                         /\ Abs(weighted.value) <= Abs(raw.value) * WeightUnit
                         /\ Sign(weighted.value) = Sign(raw.value)

\* C30's case: the corpus holds three games, without playerCount and with
\* 1000 players, scored above zero, below zero and zero.
C30_Witness ==
    \E q \in QueryEmbeddings :
        LET list == weightedSimilarGames(files.embeddings.of, files.games.of, q)
        IN  /\ Len(list) = 3
            /\ {files.games.of[list[i].universeId] : i \in 1..3} = PlayerCounts
            /\ \E i, j, k \in 1..3 :
                  /\ ~list[i].similarity.nan /\ list[i].similarity.value > 0
                  /\ ~list[j].similarity.nan /\ list[j].similarity.value < 0
                  /\ ~list[k].similarity.nan /\ list[k].similarity.value = 0

(* ----------------------- reads while a job is run ---------------------- *)

\* C28: every call of runJob on a job there is has invoked the unit of work
\* once, after writing status running and started_at; while the unit of work
\* is executing, a read of the job shows status running, started_at set and
\* completed_at unset.
C28_RunningWhileExecuting ==
    \A id \in PairIds :
        /\ tasks[id].invoked = Runs(id)
        /\ tasks[id].awaiting > 0 =>
              LET read == getJob(jobs, id) IN
                 /\ read.kind = "job"
                 /\ read.job.status = "running"
                 /\ read.job.started_at # UndefinedInt
                 /\ read.job.completed_at = UndefinedInt

(* ------------------- a job deleted while it is in flight --------------- *)

\* Two jobs, each created and run once, reported on, and deleted at any
\* moment by deleteJob or by deleteOldJobs(0).
NextDelete ==
    \/ \E c \in Commands, id \in PairIds, t \in LaterCreateInstants :
          CreateJobAt(c, id, t)
    \/ \E id \in PairIds, t \in LaterCreateInstants : RunJobOnce(id, t)
    \/ \E id \in PairIds, o \in Outcomes, t \in LaterCreateInstants :
          Settle(id, o, t)
    \/ \E id \in PairIds, p \in Progress : UpdateJobProgress(id, p)
    \/ \E id \in PairIds : DeleteJob(id)
    \/ \E t \in LaterCreateInstants : DeleteOldJobs(0, t)
    \/ \E kind \in ListenerKinds : On(kind)

SpecDelete == InitRetention /\ [][NextDelete]_vars

\* C29: deleting the row of a job leaves its runJob call in flight; from then
\* on the row is never there again and getJob returns undefined, the terminal
\* update of runJob and every updateJobProgress for the id leave the table as
\* it is, emit nothing and do not throw, and runJob is fulfilled.
C29_DeletedInFlightIsSilent ==
    /\ [](\A id \in PairIds :
             tasks[id].deleted > 0 =>
                /\ getJob(jobs, id).kind = "undefined"
                /\ \A p \in Progress :
                      updateJobProgress(jobs, listeners, id, p)
                         = Returned(jobs, <<>>)
                /\ tasks[id].awaiting > 0 =>
                      \A o \in Outcomes, t \in LaterCreateInstants :
                         LET r == runJobSettle(jobs, listeners, id, t, o) IN
                            /\ r.call = Returned(jobs, <<>>)
                            /\ r.pc = "fulfilled")
    /\ [][\A id \in PairIds :
             /\ HasRow(jobs, id) /\ ~HasRow(jobs', id) =>
                   /\ tasks'[id].awaiting = tasks[id].awaiting
                   /\ tasks'[id].invoked = tasks[id].invoked
             /\ tasks[id].deleted > 0 =>
                   /\ ~HasRow(jobs', id)
                   /\ tasks'[id].rejected = tasks[id].rejected ]_vars

\* C29's case: with a throwing listener subscribed, one job was deleted while
\* its unit of work is in flight, and the runJob call of another job deleted
\* in flight has been fulfilled since.
C29_Witness ==
    /\ "throws" \in listeners
    /\ \E id, other \in PairIds :
          /\ tasks[id].deleted = 1
          /\ tasks[id].awaiting = 1
          /\ tasks[other].deleted = 1
          /\ tasks[other].invoked = 1
          /\ tasks[other].fulfilled = 1
          /\ id # other

====
